---------------------------- MODULE Spec2Model ----------------------------
(***************************************************************************)
(* Model of the balda native addon: the module initializer balda::Init     *)
(* (src/native/binding.cpp), the unchecked registration routine            *)
(* balda::init and the exported callable balda::addNumbers                 *)
(* (src/native/test.cpp).                                                  *)
(*                                                                         *)
(* The host runtime (the N-API embedding) is the environment: which status *)
(* it returns from napi_create_function and napi_set_named_property, the   *)
(* properties the exports surface holds on entry, and the arguments of     *)
(* every call of addNumbers are chosen nondeterministically.               *)
(***************************************************************************)
EXTENDS Integers, Sequences, FiniteSets, TLC

(***************************************************************************)
(* Bounds of the model.                                                    *)
(***************************************************************************)
\* the host passes between 0 and MaxArgs arguments to one call
MaxArgs == 3

(***************************************************************************)
(* int32_t (src/native/test.cpp:10,14).                                    *)
(***************************************************************************)
INT32_MAX == 2147483647
INT32_MIN == -INT32_MAX - 1
\* base of one 16-bit limb of the 32-bit word
LimbBase == 2^16

\* the int32_t values the model draws operands (and indeterminate values) from
Int32Sample == {INT32_MIN, -1, 0, 1, INT32_MAX}

(***************************************************************************)
(* Host values (napi_value).  A number is kept as its truncation toward    *)
(* zero plus a flag telling whether the number is integral (1.5 is         *)
(* [trunc |-> 1, integral |-> FALSE]).                                     *)
(***************************************************************************)
Num(n) == [type |-> "number", trunc |-> n, integral |-> TRUE]
Frac(n) == [type |-> "number", trunc |-> n, integral |-> FALSE]
Undefined == [type |-> "undefined", trunc |-> 0, integral |-> FALSE]

\* values the host may pass as an argument
ArgValues == {Num(n) : n \in Int32Sample} \cup {Frac(1), Undefined}

\* the callee asks the host for two arguments (size_t argc = 2); the host
\* does not copy further ones, which the model passes as one fixed value
Argc == 2
ExtraArg == Num(1)

\* argument lists of one call: the first two arguments range over ArgValues
ArgLists ==
    UNION {[1..k -> ArgValues] : k \in 0..Argc}
    \cup {p \o [i \in 1..k |-> ExtraArg] :
             p \in [1..Argc -> ArgValues], k \in 1..(MaxArgs - Argc)}

\* handles
FnHandle == "function:addNumbers"
NullHandle == "nullptr"
ExportsHandle == "exports"
\* what an uninitialized napi_value local may hold
IndeterminateHandles == {NullHandle, "stale_handle"}

\* statuses of the host calls
napi_ok == "napi_ok"
FailureStatuses == {"napi_generic_failure", "napi_pending_exception"}
Statuses == {napi_ok} \cup FailureStatuses

\* properties the exports surface may hold when the host passes it in
HostProps == {"default", "__esModule"}
HostValue == "host_value"


(***************************************************************************)
(* State.                                                                  *)
(***************************************************************************)
VARIABLES
    host,       \* statuses the host returns: [create, set]
    entry,      \* the exports surface as the host passed it in
    exports,    \* the exports surface handed to balda::Init
    ret,        \* what balda::Init returned ("running" until it has)
    thrown,     \* messages balda::Init raised with napi_throw_error
    trace,      \* host calls made by balda::Init, in order
    t_exports,  \* the exports surface handed to balda::init (test.cpp)
    t_ret,      \* what balda::init returned ("running" until it has)
    t_thrown,   \* messages balda::init raised
    t_trace,    \* host calls made by balda::init, in order
    last        \* the last invocation of addNumbers

vars == <<host, entry, exports, ret, thrown, trace,
          t_exports, t_ret, t_thrown, t_trace, last>>

Running == "running"
NoCall == [args |-> <<>>, status |-> <<>>, uninit |-> {}, thrown |-> <<>>,
           ret |-> Undefined, called |-> FALSE]

(***************************************************************************)
(* Host API, as used at the call sites.                                    *)
(***************************************************************************)
\* napi_create_function(env, nullptr, 0, addNumbers, nullptr, &fn): writes the
\* new function's handle to fn on success and leaves fn as it was on failure
napi_create_function(status, fn) ==
    IF status = napi_ok THEN FnHandle ELSE fn

\* napi_set_named_property(env, object, name, value): on success the object
\* has the property name with that value; on failure it is as before
napi_set_named_property(status, object, name, value) ==
    IF status = napi_ok
    THEN [p \in DOMAIN object \cup {name} |->
             IF p = name THEN value ELSE object[p]]
    ELSE object

\* napi_get_cb_info(env, info, &argc, args, ...) with argc = 2: the first two
\* arguments; a missing one is filled with the host's undefined
napi_get_cb_info(actual) ==
    [i \in 1..Argc |-> IF i <= Len(actual) THEN actual[i] ELSE Undefined]

\* status of napi_get_value_int32(env, value, &out)
napi_get_value_int32_status(value) ==
    IF value.type = "number" THEN napi_ok ELSE "napi_number_expected"

\* out after napi_get_value_int32(env, value, &out): the number truncated to
\* an int32_t, or out as it was when value is not a number
napi_get_value_int32(value, out) ==
    IF value.type = "number" THEN value.trunc ELSE out

\* napi_create_int32(env, n, &result)
napi_create_int32(n) == Num(n)

(***************************************************************************)
(* int32_t addition: the two's-complement adder, on 16-bit limbs.          *)
(***************************************************************************)
Hi(x) == (x \div LimbBase) % LimbBase
Lo(x) == x % LimbBase
Signed32(hi, lo) ==
    IF hi >= LimbBase \div 2 THEN (hi - LimbBase) * LimbBase + lo
    ELSE hi * LimbBase + lo

\* variant: the sum clamped to INT32_MIN..INT32_MAX instead of wrapped
Add32_Saturating(a, b) ==
    IF b > 0 /\ a > INT32_MAX - b THEN INT32_MAX
    ELSE IF b < 0 /\ a < INT32_MIN - b THEN INT32_MIN
    ELSE a + b

\* variant: a - b in place of a + b
Add32_Minus(a, b) ==
    LET lo == Lo(a) - Lo(b)
        hi == Hi(a) - Hi(b) + (lo \div LimbBase)
    IN  Signed32(hi % LimbBase, lo % LimbBase)

\* int32_t result = a + b;
Add32(a, b) ==
    LET lo == Lo(a) + Lo(b)
        hi == Hi(a) + Hi(b) + (lo \div LimbBase)
    IN  Signed32(hi % LimbBase, lo % LimbBase)


(***************************************************************************)
(* balda::addNumbers (src/native/test.cpp:5-19).                           *)
(***************************************************************************)
\* the values an int32_t local may hold before napi_get_value_int32 ran on
\* value: indeterminate; one representative when the call overwrites it
Indeterminate32(value) ==
    IF napi_get_value_int32_status(value) = napi_ok THEN {0} ELSE Int32Sample

\* variant: both operands extracted from args[0]
addNumbersCall_SameArg(actual, a0, b0) ==
    LET args == napi_get_cb_info(actual)
        a == napi_get_value_int32(args[1], a0)
        b == napi_get_value_int32(args[1], b0)
    IN  [args |-> actual,
         status |-> <<napi_get_value_int32_status(args[1]),
                      napi_get_value_int32_status(args[1])>>,
         uninit |-> {i \in 1..Argc :
                        napi_get_value_int32_status(args[1]) # napi_ok},
         thrown |-> <<>>,
         ret |-> napi_create_int32(Add32(a, b)),
         called |-> TRUE]

\* one run of addNumbers on the host's argument list, a0 and b0 being what
\* the locals a and b hold before the extraction calls
addNumbersCall(actual, a0, b0) ==
    LET args == napi_get_cb_info(actual)
        a == napi_get_value_int32(args[1], a0)
        b == napi_get_value_int32(args[2], b0)
        result == Add32(a, b)
    IN  [args |-> actual,
         status |-> <<napi_get_value_int32_status(args[1]),
                      napi_get_value_int32_status(args[2])>>,
         uninit |-> {i \in 1..Argc :
                        napi_get_value_int32_status(args[i]) # napi_ok},
         thrown |-> <<>>,
         ret |-> napi_create_int32(result),
         called |-> TRUE]

(***************************************************************************)
(* balda::Init (src/native/binding.cpp:7-35).                              *)
(***************************************************************************)
CreateMsg == "Failed to create addNumbers function"
SetMsg == "Failed to set addNumbers property"

\* variant: the status of napi_set_named_property is not looked at
InitRun_IgnoreSetStatus(h, object, fn0) ==
    IF h.create # napi_ok
    THEN [exports |-> object, ret |-> NullHandle, thrown |-> <<CreateMsg>>,
          trace |-> <<"napi_create_function">>]
    ELSE [exports |-> napi_set_named_property(h.set, object, "addNumbers",
                                              FnHandle),
          ret |-> ExportsHandle, thrown |-> <<>>,
          trace |-> <<"napi_create_function", "napi_set_named_property">>]

\* variant: on success, the exports surface handed back is a fresh object
\* holding the callable alone
InitRun_FreshExports(h, object, fn0) ==
    IF h.create # napi_ok
    THEN [exports |-> object, ret |-> NullHandle, thrown |-> <<CreateMsg>>,
          trace |-> <<"napi_create_function">>]
    ELSE IF h.set # napi_ok
         THEN [exports |-> object, ret |-> NullHandle, thrown |-> <<SetMsg>>,
               trace |-> <<"napi_create_function",
                           "napi_set_named_property">>]
         ELSE [exports |-> napi_set_named_property(h.set, <<>>, "addNumbers",
                                                   FnHandle),
               ret |-> ExportsHandle, thrown |-> <<>>,
               trace |-> <<"napi_create_function",
                           "napi_set_named_property">>]

\* variant: both host calls are made first and the statuses checked after
InitRun_LateCheck(h, object, fn0) ==
    LET add_numbers_fn == napi_create_function(h.create, fn0)
        after == napi_set_named_property(h.set, object, "addNumbers",
                                         add_numbers_fn)
        both == <<"napi_create_function", "napi_set_named_property">>
    IN  IF h.create # napi_ok
        THEN [exports |-> after, ret |-> NullHandle,
              thrown |-> <<CreateMsg>>, trace |-> both]
        ELSE IF h.set # napi_ok
             THEN [exports |-> after, ret |-> NullHandle,
                   thrown |-> <<SetMsg>>, trace |-> both]
             ELSE [exports |-> after, ret |-> ExportsHandle,
                   thrown |-> <<>>, trace |-> both]

\* variant: no return after the first napi_throw_error
InitRun_FallThrough(h, object, fn0) ==
    LET add_numbers_fn == napi_create_function(h.create, fn0)
        first == IF h.create # napi_ok THEN <<CreateMsg>> ELSE <<>>
        after == napi_set_named_property(h.set, object, "addNumbers",
                                         add_numbers_fn)
        both == <<"napi_create_function", "napi_set_named_property">>
    IN  IF h.set # napi_ok
        THEN [exports |-> after, ret |-> NullHandle,
              thrown |-> first \o <<SetMsg>>, trace |-> both]
        ELSE [exports |-> after, ret |-> ExportsHandle,
              thrown |-> first, trace |-> both]

\* one run of Init: h the host's statuses, object the exports surface, fn0
\* what the local add_numbers_fn holds before napi_create_function
InitRun(h, object, fn0) ==
    LET add_numbers_fn == napi_create_function(h.create, fn0)
    IN  IF h.create # napi_ok
        THEN [exports |-> object, ret |-> NullHandle,
              thrown |-> <<CreateMsg>>,
              trace |-> <<"napi_create_function">>]
        ELSE LET after == napi_set_named_property(h.set, object, "addNumbers",
                                                  add_numbers_fn)
             IN  IF h.set # napi_ok
                 THEN [exports |-> after, ret |-> NullHandle,
                       thrown |-> <<SetMsg>>,
                       trace |-> <<"napi_create_function",
                                   "napi_set_named_property">>]
                 ELSE [exports |-> after, ret |-> ExportsHandle,
                       thrown |-> <<>>,
                       trace |-> <<"napi_create_function",
                                   "napi_set_named_property">>]

(***************************************************************************)
(* balda::init (src/native/test.cpp:21-26): no status is looked at.        *)
(***************************************************************************)
\* variant: the statuses are checked as balda::Init checks them
initRun_Checked(h, object, fn0) ==
    IF h.create # napi_ok
    THEN [exports |-> object, ret |-> NullHandle, thrown |-> <<CreateMsg>>,
          trace |-> <<"napi_create_function">>]
    ELSE IF h.set # napi_ok
         THEN [exports |-> object, ret |-> NullHandle, thrown |-> <<SetMsg>>,
               trace |-> <<"napi_create_function",
                           "napi_set_named_property">>]
         ELSE [exports |-> napi_set_named_property(h.set, object,
                                                   "addNumbers", FnHandle),
               ret |-> ExportsHandle, thrown |-> <<>>,
               trace |-> <<"napi_create_function",
                           "napi_set_named_property">>]

initRun(h, object, fn0) ==
    LET add_numbers_fn == napi_create_function(h.create, fn0)
        after == napi_set_named_property(h.set, object, "addNumbers",
                                         add_numbers_fn)
    IN  [exports |-> after, ret |-> ExportsHandle, thrown |-> <<>>,
         trace |-> <<"napi_create_function", "napi_set_named_property">>]

(***************************************************************************)
(* The state machine.                                                      *)
(***************************************************************************)
Init ==
    /\ host \in [create : Statuses, set : Statuses]
    /\ entry \in UNION {[S -> {HostValue}] : S \in SUBSET HostProps}
    /\ exports = entry
    /\ ret = Running
    /\ thrown = <<>>
    /\ trace = <<>>
    /\ t_exports = entry
    /\ t_ret = Running
    /\ t_thrown = <<>>
    /\ t_trace = <<>>
    /\ last = NoCall

\* the host loads the module: NAPI_MODULE(NODE_GYP_MODULE_NAME, balda::Init)
balda_Init ==
    /\ ret = Running
    /\ \E fn0 \in IndeterminateHandles :
          LET r == InitRun(host, exports, fn0)
          IN  /\ exports' = r.exports
              /\ ret' = r.ret
              /\ thrown' = r.thrown
              /\ trace' = r.trace
    /\ UNCHANGED <<host, entry, t_exports, t_ret, t_thrown, t_trace, last>>

\* the host registers through the unchecked routine balda::init
balda_init ==
    /\ t_ret = Running
    /\ \E fn0 \in IndeterminateHandles :
          LET r == initRun(host, t_exports, fn0)
          IN  /\ t_exports' = r.exports
              /\ t_ret' = r.ret
              /\ t_thrown' = r.thrown
              /\ t_trace' = r.trace
    /\ UNCHANGED <<host, entry, exports, ret, thrown, trace, last>>

\* the callable is reachable by host code through a surface handed back
Exposed(returned, surface) ==
    /\ returned = ExportsHandle
    /\ "addNumbers" \in DOMAIN surface
    /\ surface["addNumbers"] = FnHandle

\* host code calls the exported addNumbers
addNumbers ==
    /\ Exposed(ret, exports) \/ Exposed(t_ret, t_exports)
    /\ \E actual \in ArgLists :
          \E a0 \in Indeterminate32(napi_get_cb_info(actual)[1]),
             b0 \in Indeterminate32(napi_get_cb_info(actual)[2]) :
             last' = addNumbersCall(actual, a0, b0)
    /\ UNCHANGED <<host, entry, exports, ret, thrown, trace,
                   t_exports, t_ret, t_thrown, t_trace>>

Next == balda_Init \/ balda_init \/ addNumbers

Spec == Init /\ [][Next]_vars


(***************************************************************************)
(* Vocabulary of the properties.                                           *)
(***************************************************************************)
\* a host value that is a 32-bit signed integer
IsInt32(v) == v.type = "number" /\ v.integral

\* the last invocation passed exactly two 32-bit signed integers
Int32Pair ==
    /\ last.called
    /\ Len(last.args) = Argc
    /\ IsInt32(last.args[1])
    /\ IsInt32(last.args[2])

\* the integer a + b reduced to 32-bit two's complement: the one value of
\* INT32_MIN..INT32_MAX that differs from a + b by a multiple of 2^32
Wrap32(a, b) ==
    IF b > 0 /\ a > INT32_MAX - b
    THEN (a + INT32_MIN) + (b + INT32_MIN)
    ELSE IF b < 0 /\ a < INT32_MIN - b
         THEN ((a + INT32_MAX) + 1) + ((b + INT32_MAX) + 1)
         ELSE a + b

InitDone == ret # Running
initDone == t_ret # Running
HostOk == host.create = napi_ok /\ host.set = napi_ok

\* C1: for every pair (a, b) of 32-bit signed integers passed as the two
\* arguments, addNumbers returns a + b reduced to 32-bit two's complement and
\* raises no error; addNumbers(2147483647, 1) returns -2147483648.
C1_WrapAround ==
    /\ Int32Pair =>
          /\ last.ret = Num(Wrap32(last.args[1].trunc, last.args[2].trunc))
          /\ last.thrown = <<>>
    /\ (last.called /\ last.args = <<Num(INT32_MAX), Num(1)>>) =>
          last.ret = Num(INT32_MIN)

C1_Witness ==
    /\ last.called
    /\ last.args = <<Num(INT32_MAX), Num(1)>>
    /\ last.ret = Num(INT32_MIN)
    /\ last.thrown = <<>>

\* C2: Init returns the exports surface if and only if both the creation of
\* the callable and its attachment succeed; if either fails, Init raises a
\* runtime error and returns the null sentinel.
C2_InitResult ==
    InitDone =>
       /\ (ret = ExportsHandle) <=> HostOk
       /\ ~HostOk => (ret = NullHandle /\ thrown # <<>>)
       /\ HostOk => thrown = <<>>

C2_Witness ==
    /\ InitDone
    /\ host.create = napi_ok
    /\ host.set # napi_ok
    /\ ret = NullHandle
    /\ thrown # <<>>

\* C3: a call of addNumbers with fewer than two arguments ends in a defined
\* error, not in a result computed from uninitialized values.
C3_MissingArgumentError ==
    (last.called /\ Len(last.args) < Argc) =>
       (last.thrown # <<>> /\ last.uninit = {})

\* C4: after a successful Init the exports surface differs from the surface
\* on entry by exactly one added property, the callable addNumbers; every
\* other property is unchanged and no other property is added.
C4_OneAddedProperty ==
    (InitDone /\ ret = ExportsHandle) =>
       /\ "addNumbers" \notin DOMAIN entry
       /\ DOMAIN exports = DOMAIN entry \cup {"addNumbers"}
       /\ Cardinality(DOMAIN exports) = Cardinality(DOMAIN entry) + 1
       /\ exports["addNumbers"] = FnHandle
       /\ \A p \in DOMAIN entry : exports[p] = entry[p]

C4_Witness ==
    /\ InitDone
    /\ ret = ExportsHandle
    /\ DOMAIN entry = HostProps
    /\ exports["addNumbers"] = FnHandle

\* C5: whenever Init fails, the exports surface is exactly as on entry (no
\* addNumbers property is attached) and it is not handed back to the host.
C5_NoPartialSurface ==
    (InitDone /\ ~HostOk) =>
       /\ exports = entry
       /\ "addNumbers" \notin DOMAIN exports
       /\ ret # ExportsHandle
       /\ ret = NullHandle

C5_Witness ==
    /\ InitDone
    /\ host.create = napi_ok
    /\ host.set # napi_ok
    /\ exports = entry
    /\ DOMAIN entry # {}

\* C6: in any sequence of invocations of addNumbers, the result of an
\* invocation is determined by its own two arguments: a call with the same
\* two arguments as the call before it returns the same value.
C6_SameArgsSameResult ==
    [][(/\ last.called
        /\ last'.called
        /\ Len(last.args) = Argc
        /\ last'.args = last.args) => last'.ret = last.ret]_vars

\* C7: addNumbers is commutative: for all 32-bit signed integers a and b,
\* addNumbers(a, b) equals addNumbers(b, a), overflowing sums included.
C7_Commutative ==
    Int32Pair =>
       \A a0, b0 \in Int32Sample :
          addNumbersCall(<<last.args[2], last.args[1]>>, a0, b0).ret = last.ret

C7_Witness ==
    /\ Int32Pair
    /\ last.args = <<Num(INT32_MIN), Num(-1)>>
    /\ last.ret = Num(INT32_MAX)

\* C8: zero is an identity: for every 32-bit signed integer a, INT32_MIN and
\* INT32_MAX included, addNumbers(a, 0) returns a.
C8_ZeroIdentity ==
    (Int32Pair /\ last.args[2] = Num(0)) => last.ret = last.args[1]

C8_Witness ==
    /\ Int32Pair
    /\ last.args = <<Num(INT32_MIN), Num(0)>>
    /\ last.ret = Num(INT32_MIN)

\* C9: in every run of Init, attachment of the property is attempted only
\* after function creation has succeeded; a failing run raises exactly one
\* error, naming the step that failed, and a successful run raises none.
C9_CreateThenAttach ==
    InitDone =>
       /\ trace[1] = "napi_create_function"
       /\ (\E i \in 1..Len(trace) : trace[i] = "napi_set_named_property") =>
             /\ host.create = napi_ok
             /\ trace = <<"napi_create_function", "napi_set_named_property">>
       /\ host.create = napi_ok =>
             trace = <<"napi_create_function", "napi_set_named_property">>
       /\ host.create # napi_ok => thrown = <<CreateMsg>>
       /\ (host.create = napi_ok /\ host.set # napi_ok) => thrown = <<SetMsg>>
       /\ HostOk => thrown = <<>>

C9_Witness ==
    /\ InitDone
    /\ host.create # napi_ok
    /\ trace = <<"napi_create_function">>
    /\ thrown = <<CreateMsg>>

\* C10: the unchecked routine init returns the exports surface and raises no
\* error for every combination of success and failure of function creation
\* and property attachment, attempting attachment even when creation failed;
\* its outcome is that of Init exactly when both host calls succeed.
C10_UncheckedInit ==
    /\ initDone =>
          /\ t_ret = ExportsHandle
          /\ t_thrown = <<>>
          /\ t_trace = <<"napi_create_function", "napi_set_named_property">>
    /\ (initDone /\ InitDone) =>
          (<<t_ret, t_thrown, t_exports>> = <<ret, thrown, exports>>) <=> HostOk

C10_Witness ==
    /\ initDone
    /\ InitDone
    /\ host.create # napi_ok
    /\ t_ret = ExportsHandle
    /\ ret = NullHandle
    /\ t_trace = <<"napi_create_function", "napi_set_named_property">>

=============================================================================
